---- MODULE Spec2Model ----
(***************************************************************************)
(* Model of examples/find_sample_usage (src/examples/find_sample_usage/    *)
(* src/main.rs): the landmark-hash sample finder.                          *)
(*                                                                         *)
(* A PCM buffer is the record [len, cols]: len is the number of samples    *)
(* and cols[t+1] names the spectral content of analysis frame t.  The FFT  *)
(* of rustfft is not recomputed: Magnitude(c, f) is the magnitude the      *)
(* transform yields in bin f for a window whose content is c.              *)
(***************************************************************************)
EXTENDS Integers, Sequences, FiniteSets, TLC

\* ------------------------------------------------------------------ bounds
MaxFrames  == 3        \* longest clip, in analysis frames
NumTracks  == 5        \* .ogg files in the music directory
MaxRuns    == 2        \* runs of the program over the same hashes/ directory
MaxPcmLen  == 2600     \* longest PCM buffer handed to compute_spectrogram alone
MaxSnippetEntries == 3 \* longest snippet fingerprint given to the matcher alone
MaxTrackEntries == 4   \* longest track fingerprint given to the matcher alone
MaxLandmarkFrames == 11 \* longest clip given to compute_fingerprint alone

\* ------------------------------------------------------- program constants
window_size == 1024    \* compute_fingerprint
hop_size    == 512     \* compute_fingerprint, find_matches
top_n       == 5       \* find_peaks
fan_value   == 5       \* compute_fingerprint
lookahead_end == 10    \* compute_fingerprint: future_t < t + 10
match_threshold == 5   \* find_matches: best_count > 5
sample_rate == 48000   \* main

BufCapacity == 8192    \* BufWriter::new, BufReader::new: the buffer of std::io

U16 == 65536
I32Max == 2147483647

\* ----------------------------------------------------------------- helpers
Min(a, b) == IF a < b THEN a ELSE b

\* usize::saturating_sub
saturating_sub(a, b) == IF a >= b THEN a - b ELSE 0

\* A u32 is [hi, lo] and stands for hi * 2^31 + lo, with lo in 0 .. 2^31 - 1.
\* `t as u32` of a frame index
U32Of(n) == [hi |-> 0, lo |-> n]

\* the u32 2^31 + lo
U32High(lo) == [hi |-> 1, lo |-> lo]

\* `x as i32` for a u32 x: values above i32::MAX wrap to the negatives
as_i32(x) == IF x.hi = 1 THEN (x.lo - I32Max) - 1 ELSE x.lo

\* a - b on two i32: whether the difference leaves i32, and the difference
\* wrapped into i32 (the value a build without overflow checks goes on with)
SubI32(a, b) ==
    IF b >= 0 /\ a < ((0 - I32Max) - 1) + b
    THEN [overflow |-> TRUE, value |-> ((a + I32Max) + 1) + ((I32Max - b) + 1)]
    ELSE IF b < 0 /\ a > I32Max + b
    THEN [overflow |-> TRUE, value |-> ((a - I32Max) - 1) + ((0 - (b + 1)) - I32Max)]
    ELSE [overflow |-> FALSE, value |-> a - b]

\* the concatenation of the sequences ss[lo], ..., ss[hi]
RECURSIVE FlattenRange(_, _, _)
FlattenRange(ss, lo, hi) ==
    IF lo > hi THEN <<>>
    ELSE IF lo = hi THEN ss[lo]
    ELSE LET mid == (lo + hi) \div 2
         IN  FlattenRange(ss, lo, mid) \o FlattenRange(ss, mid + 1, hi)

Flatten(ss) == FlattenRange(ss, 1, Len(ss))

\* table[x] where the table holds x, else v: a value computed once is looked
\* up, any other is computed
Memo(table, x, v) == IF x \in DOMAIN table THEN table[x] ELSE v

\* --------------------------------------------------------------- the audio
\* the spectral contents a frame can have
ColumnIds == {0, 1, 2}

\* Magnitude of bin f in a frame of content c: five loud bins starting at
\* 2c, of two loudness levels, silence elsewhere.
Magnitude(c, f) ==
    IF f >= 2 * c /\ f <= 2 * c + 4 THEN 1 + ((f + c) % 2) ELSE 0

\* length of the shortest PCM buffer with n analysis frames
PcmLenOfFrames(n) == IF n = 0 THEN 0 ELSE window_size + (n - 1) * hop_size

RECURSIVE SeqsUpTo(_, _)
SeqsUpTo(S, n) ==
    IF n = 0 THEN {<<>>}
    ELSE LET shorter == SeqsUpTo(S, n - 1)
         IN  shorter \cup {Append(s, x) : s \in {q \in shorter : Len(q) = n - 1}, x \in S}

\* ------------------------------------------------------ compute_spectrogram
n_hops_of(len, w, h) == (saturating_sub(len, w) \div h) + 1

\* first sample index past the window of frame hop_idx
FrameEnd(hop_idx, w, h) == hop_idx * h + w

\* pcm[offset + i] is out of bounds for some i < window_size of some frame
SpectrogramPanics(len, w, h) ==
    \E hop_idx \in 0 .. (n_hops_of(len, w, h) - 1) : FrameEnd(hop_idx, w, h) > len

\* the sample ranges [lo, hi) the frame loop reads, one per hop_idx
FramesRead(len, w, h) ==
    {[hop_idx |-> k, lo |-> k * h, hi |-> FrameEnd(k, w, h)] :
        k \in 0 .. (n_hops_of(len, w, h) - 1)}

\* spectrogram[freq_bin + 1][hop_idx + 1], or a panic
compute_spectrogram(pcm, w, h) ==
    IF SpectrogramPanics(pcm.len, w, h)
    THEN [status |-> "panic"]
    ELSE [status |-> "ok",
          spectrogram |->
            [fb \in 1 .. (w \div 2) |->
               [hp \in 1 .. n_hops_of(pcm.len, w, h) |->
                  Magnitude(pcm.cols[hp], fb - 1)]]]

\* -------------------------------------------------------------- find_peaks
\* The bin a stable descending sort by magnitude puts first among `rest`.
FirstBySort(col, rest) ==
    CHOOSE f \in rest :
        \A g \in rest : col[g + 1] < col[f + 1] \/ (col[g + 1] = col[f + 1] /\ g >= f)

RECURSIVE TakeSorted(_, _, _)
TakeSorted(col, rest, n) ==
    IF n = 0 \/ rest = {} THEN <<>>
    ELSE LET f == FirstBySort(col, rest)
         IN  <<f>> \o TakeSorted(col, rest \ {f}, n - 1)

find_peaks(spectrogram) ==
    LET n_freqs == Len(spectrogram)
    IN  IF n_freqs = 0 THEN <<>>
        ELSE LET n_hops == Len(spectrogram[1])
             IN  [time_idx \in 1 .. n_hops |->
                    TakeSorted([fb \in 1 .. n_freqs |-> spectrogram[fb][time_idx]],
                               0 .. (n_freqs - 1), top_n)]

\* ------------------------------------------------------ compute_fingerprint
\* future_t < t + 11 in place of future_t < t + 10
PairsOf_wide(peaks_by_time) ==
    LET n == Len(peaks_by_time)
        ForFuture(t, f1, future_t) ==
            LET future_peaks == peaks_by_time[future_t + 1]
            IN  [j \in 1 .. Min(Len(future_peaks), fan_value) |->
                   [f1 |-> f1, f2 |-> future_peaks[j],
                    delta_t |-> (future_t - t) % U16, anchor_time |-> U32Of(t)]]
        ForPeak(t, f1) ==
            LET stop == Min(t + lookahead_end + 1, n)
            IN  Flatten([k \in 1 .. saturating_sub(stop, t + 1) |-> ForFuture(t, f1, t + k)])
        ForFrame(t) ==
            Flatten([i \in 1 .. Len(peaks_by_time[t + 1]) |->
                       ForPeak(t, peaks_by_time[t + 1][i])])
    IN  Flatten([t1 \in 1 .. n |-> ForFrame(t1 - 1)])

\* the Hash Entries, in the order the nested loops push them
PairsOf(peaks_by_time) ==
    LET n == Len(peaks_by_time)
        ForFuture(t, f1, future_t) ==
            LET future_peaks == peaks_by_time[future_t + 1]
            IN  [j \in 1 .. Min(Len(future_peaks), fan_value) |->
                   [f1 |-> f1, f2 |-> future_peaks[j],
                    delta_t |-> (future_t - t) % U16, anchor_time |-> U32Of(t)]]
        ForPeak(t, f1) ==
            LET stop == Min(t + lookahead_end, n)
            IN  Flatten([k \in 1 .. saturating_sub(stop, t + 1) |-> ForFuture(t, f1, t + k)])
        ForFrame(t) ==
            Flatten([i \in 1 .. Len(peaks_by_time[t + 1]) |->
                       ForPeak(t, peaks_by_time[t + 1][i])])
    IN  Flatten([t1 \in 1 .. n |-> ForFrame(t1 - 1)])

compute_fingerprint(pcm) ==
    LET spec == compute_spectrogram(pcm, window_size, hop_size)
    IN  IF spec.status = "panic" THEN [status |-> "panic"]
        ELSE [status |-> "ok", pairs |-> PairsOf(find_peaks(spec.spectrogram))]

\* the PCM buffers the model draws: every clip of 1 .. MaxFrames frames, and
\* buffers shorter than one window
ClipOf(cs) == [len |-> PcmLenOfFrames(Len(cs)), cols |-> cs]

Clips == {ClipOf(cs) : cs \in SeqsUpTo(ColumnIds, MaxFrames) \ {<<>>}}

ShortPcms == {[len |-> l, cols |-> <<>>] : l \in {0, hop_size, window_size - 1}}

\* a clip whose fingerprint document is longer than the BufWriter's buffer
LongClip == ClipOf(<<0, 0, 0, 0>>)

\* compute_fingerprint of each of them, evaluated once (f @@ <<>> is f, held
\* as a table)
FingerprintOf ==
    [p \in Clips \cup ShortPcms \cup {LongClip} |-> compute_fingerprint(p)] @@ <<>>

Fingerprint(pcm) == Memo(FingerprintOf, pcm, compute_fingerprint(pcm))

\* ------------------------------------------------------------ find_matches
KeyOf(e) == <<e.f1, e.f2, e.delta_t>>

\* step 2: key -> anchor times of the track entries with that key, in order
\* (f @@ <<>> is f, held as a table)
track_map_of(track_pairs) ==
    [key \in {KeyOf(track_pairs[i]) : i \in DOMAIN track_pairs} |->
       LET idx == {i \in DOMAIN track_pairs : KeyOf(track_pairs[i]) = key}
           RECURSIVE Anchors(_)
           Anchors(rest) ==
               IF rest = {} THEN <<>>
               ELSE LET i == CHOOSE m \in rest : \A o \in rest : m <= o
                    IN  <<track_pairs[i].anchor_time>> \o Anchors(rest \ {i})
       IN  Anchors(idx)] @@ <<>>

\* track_map_of of the computed fingerprints, evaluated once
TrackMapTable ==
    [pairs \in {FingerprintOf[p].pairs :
                   p \in {q \in DOMAIN FingerprintOf : FingerprintOf[q].status = "ok"}} |->
       track_map_of(pairs)] @@ <<>>

TrackMap(track_pairs) == Memo(TrackMapTable, track_pairs, track_map_of(track_pairs))

\* step 3: every `track_anchor_time as i32 - snippet_ent.anchor_time as i32`
\* the double loop computes, one per increment
DiffsOf(snippet_pairs, track_pairs) ==
    LET track_map == TrackMap(track_pairs)
    IN  Flatten([i \in DOMAIN snippet_pairs |->
                   LET key == KeyOf(snippet_pairs[i])
                   IN  IF key \in DOMAIN track_map
                       THEN [j \in DOMAIN track_map[key] |->
                               SubI32(as_i32(track_map[key][j]),
                                      as_i32(snippet_pairs[i].anchor_time))]
                       ELSE <<>>])

\* the counters after the double loop, when no subtraction panicked
CountsOf(diffs) ==
    [d \in {diffs[i].value : i \in DOMAIN diffs} |->
       Cardinality({i \in DOMAIN diffs : diffs[i].value = d})] @@ <<>>

offset_count_of(snippet_pairs, track_pairs) ==
    CountsOf(DiffsOf(snippet_pairs, track_pairs))

\* the first entry the iteration yields in place of max_by_key
BestEntries_any(offset_count) == DOMAIN offset_count

\* min_by_key in place of max_by_key
BestEntries_min(offset_count) ==
    {d \in DOMAIN offset_count :
        \A e \in DOMAIN offset_count : offset_count[e] >= offset_count[d]}

\* step 4: the entries max_by_key can return; which one depends on the
\* iteration order of the HashMap
BestEntries(offset_count) ==
    {d \in DOMAIN offset_count :
        \A e \in DOMAIN offset_count : offset_count[e] <= offset_count[d]}

NoMatch == [kind |-> "None"]

\* the call panicked: 'attempt to subtract with overflow'
Panicked == [kind |-> "panic"]

\* offset * (hop / rate) seconds as whole + num / den, den > num >= 0; the
\* program holds the product in an f32
SecondsOf(offset, hop, rate) ==
    [whole |-> (offset \div rate) * hop + (((offset % rate) * hop) \div rate),
     num |-> ((offset % rate) * hop) % rate,
     den |-> rate]

\* best_count >= 5 in place of best_count > 5
MatchDecision_ge(best_offset, best_count) ==
    IF best_count >= match_threshold
    THEN [kind |-> "Some", best_offset |-> best_offset,
          offset_sec |-> SecondsOf(best_offset, hop_size, sample_rate),
          best_count |-> best_count]
    ELSE [kind |-> "None"]

\* step 5: the value returned when max_by_key yields best_offset
MatchDecision(best_offset, best_count) ==
    IF best_count > match_threshold
    THEN [kind |-> "Some", best_offset |-> best_offset,
          offset_sec |-> SecondsOf(best_offset, hop_size, sample_rate),
          best_count |-> best_count]
    ELSE NoMatch

\* every value steps 3-5 can return after the double loop computed diffs;
\* overflow_checks is how the binary was built (on in the dev profile, off
\* in the release profile)
ResultsOf(diffs, checks) ==
    IF checks /\ \E i \in DOMAIN diffs : diffs[i].overflow THEN {Panicked}
    ELSE LET offset_count == CountsOf(diffs)
         IN  IF DOMAIN offset_count = {} THEN {NoMatch}
             ELSE {MatchDecision(d, offset_count[d]) : d \in BestEntries(offset_count)}

\* every value steps 2-5 of find_matches can return
MatchResults(snippet_pairs, track_pairs, checks) ==
    ResultsOf(DiffsOf(snippet_pairs, track_pairs), checks)

\* ------------------------------------------- the persisted fingerprint file
\* A file is [exists, bytes]; bytes is the string of its bytes.
AbsentFile == [exists |-> FALSE, bytes |-> ""]

FileOf(bytes) == [exists |-> TRUE, bytes |-> bytes]

\* the byte 0 of a hole, written as the control character a string can
\* hold: the parser treats every control byte that is not white space alike
ZeroByte == "\f"

Digit == <<"0", "1", "2", "3", "4", "5", "6", "7", "8", "9">>

\* itoa of an integer below 2^31
RECURSIVE Decimal(_)
Decimal(n) == IF n < 10 THEN Digit[n + 1] ELSE Decimal(n \div 10) \o Digit[(n % 10) + 1]

\* itoa of a u32: 2^31 = 214748364 * 10 + 8
DecimalU32(x) ==
    IF x.hi = 0 THEN Decimal(x.lo)
    ELSE LET r == 8 + (x.lo % 10)
         IN  Decimal(214748364 + (x.lo \div 10) + (r \div 10)) \o Digit[(r % 10) + 1]

\* serde_json::to_writer_pretty(writer, &data): the slices PrettyFormatter
\* hands to the writer, one write_all each
Indent(n) == [i \in 1 .. n |-> "  "]

FieldPieces(first, name, text) ==
    <<IF first THEN "\n" ELSE ",\n">> \o Indent(3) \o <<"\"", name, "\"", ": ", text>>

EntryPieces(first, e) ==
    <<IF first THEN "\n" ELSE ",\n">> \o Indent(2) \o <<"{">>
        \o FieldPieces(TRUE, "f1", Decimal(e.f1))
        \o FieldPieces(FALSE, "f2", Decimal(e.f2))
        \o FieldPieces(FALSE, "delta_t", Decimal(e.delta_t))
        \o FieldPieces(FALSE, "anchor_time", DecimalU32(e.anchor_time))
        \o <<"\n">> \o Indent(2) \o <<"}">>

SerializePieces(pairs) ==
    <<"{", "\n">> \o Indent(1) \o <<"\"", "pairs", "\"", ": ", "[">>
        \o (IF pairs = <<>> THEN <<"]">>
            ELSE Flatten([i \in DOMAIN pairs |-> EntryPieces(i = 1, pairs[i])])
                     \o <<"\n">> \o Indent(1) \o <<"]">>)
        \o <<"\n", "}">>

\* the bytes of pieces lo .. hi, and the offsets at which a piece ends
RECURSIVE Joined(_, _, _)
Joined(ps, lo, hi) ==
    IF lo > hi THEN [bytes |-> "", ends |-> {}]
    ELSE IF lo = hi THEN [bytes |-> ps[lo], ends |-> {Len(ps[lo])}]
    ELSE LET mid == (lo + hi) \div 2
             l == Joined(ps, lo, mid)
             r == Joined(ps, mid + 1, hi)
         IN  [bytes |-> l.bytes \o r.bytes,
              ends |-> l.ends \cup {Len(l.bytes) + x : x \in r.ends}]

\* std::io::BufWriter of BufCapacity bytes: a slice that fits the room left
\* is copied into the buffer, a longer one has the buffer written out
\* first; what the buffer holds at the end is written when the writer is
\* dropped.  Every slice of a FingerprintData is shorter than the buffer.
\* LastFit is the last slice end at or below x.
RECURSIVE LastFit(_, _)
LastFit(ends, x) == IF x \in ends THEN x ELSE LastFit(ends, x - 1)

\* the writes the file sees after offset `from`, as [lo, hi, drop]: bytes
\* lo + 1 .. hi of the document; drop marks the write made by the drop
RECURSIVE WritesFrom(_, _, _)
WritesFrom(ends, from, total) ==
    IF from = total THEN <<>>
    ELSE LET hi == LastFit(ends, Min(from + BufCapacity, total))
         IN  <<[lo |-> from, hi |-> hi, drop |-> hi = total]>> \o WritesFrom(ends, hi, total)

\* the pieces the BufWriter hands to the file, in order, each with the
\* offset it is written at
ChunksOf(pieces) ==
    LET j == Joined(pieces, 1, Len(pieces))
        ws == WritesFrom(j.ends, 0, Len(j.bytes))
    IN  [k \in DOMAIN ws |->
           [off |-> ws[k].lo, bytes |-> SubSeq(j.bytes, ws[k].lo + 1, ws[k].hi),
            drop |-> ws[k].drop]]

\* write(2) of chunk at offset off of a file holding bytes; the bytes of a
\* gap between the old end and off read as zero
RECURSIVE Zeros(_)
Zeros(n) ==
    IF n <= 0 THEN ""
    ELSE IF n = 1 THEN ZeroByte
    ELSE Zeros(n \div 2) \o Zeros(n - (n \div 2))

WriteAt(bytes, off, chunk) ==
    SubSeq(bytes, 1, Min(off, Len(bytes))) \o Zeros(off - Len(bytes)) \o chunk
        \o SubSeq(bytes, off + Len(chunk) + 1, Len(bytes))

\* The disk, as one call meets it: dir - hashes/ is there or can be made;
\* stat - hash_file.exists() can read the metadata of the entry (it answers
\* false when it cannot, whether or not the entry is there); open -
\* File::open succeeds; create - File::create succeeds; writes - the outcome
\* of the n-th write(2) of the call, TRUE past the end of the list.
NoFault == [dir |-> TRUE, stat |-> TRUE, open |-> TRUE, create |-> TRUE, writes |-> <<>>]

WriteOk(disk, n) == n > Len(disk.writes) \/ disk.writes[n]

\* lines 362-363 on the created file: what to_writer_pretty returns and the
\* bytes the file is left with.  A write that fails inside the serializer
\* ends the call with the error, and the drop tries that write once more;
\* the error of a write made by the drop is discarded.
RECURSIVE WriteChunks(_, _, _, _)
WriteChunks(chunks, k, bytes, disk) ==
    IF k > Len(chunks) THEN [status |-> "ok", bytes |-> bytes]
    ELSE IF WriteOk(disk, k) THEN WriteChunks(chunks, k + 1, bytes \o chunks[k].bytes, disk)
    ELSE IF chunks[k].drop THEN [status |-> "ok", bytes |-> bytes]
    ELSE [status |-> "err",
          bytes |-> IF WriteOk(disk, k + 1) THEN bytes \o chunks[k].bytes ELSE bytes]

\* ---------------------------------- serde_json::from_reader::<FingerprintData>
\* A stream is what the reader has answered so far: bytes, the bytes read;
\* eofs, the places among the answers where a read returned no byte; closed,
\* whether every read past the bytes returns none (a file nobody writes to).
\* The parser's cursor counts the answers it has taken: a byte it has peeked
\* at is still to take, an answer of no byte is not kept and is taken by the
\* peek.  A result is "ok" or "err" with the cursor it ends at, or More when
\* the parser asks for an answer the stream does not hold yet.
More == [st |-> "more", pos |-> 0, val |-> <<>>]

WholeFile(bytes) == [bytes |-> bytes, eofs |-> {}, closed |-> TRUE]

\* the i-th answer: a byte, "" for no byte, "more" when it is still to read
Ch(s, i) ==
    LET Byte(k) ==
            IF k <= Len(s.bytes) THEN SubSeq(s.bytes, k, k)
            ELSE IF s.closed THEN "" ELSE "more"
    IN  IF i \in s.eofs THEN ""
        ELSE Byte(IF s.eofs = {} THEN i ELSE i - Cardinality({e \in s.eofs : e < i}))

Ok(pos, val) == [st |-> "ok", pos |-> pos, val |-> val]

ErrAt(pos) == [st |-> "err", pos |-> pos, val |-> <<>>]

\* the first answer from i on that is not a byte of set
Span(s, i, set) ==
    LET last == Len(s.bytes) + Cardinality(s.eofs) + 1
    IN  CHOOSE j \in i .. (IF i > last THEN i ELSE last) :
            Ch(s, j) \notin set /\ \A k \in i .. j - 1 : Ch(s, k) \in set

\* parse_whitespace
SkipWs(s, i) == Span(s, i, {" ", "\n", "\t", "\r"})

Digits == {Digit[d] : d \in DOMAIN Digit}

RECURSIVE ValueOf(_, _, _)
ValueOf(s, i, j) ==
    IF i > j THEN 0
    ELSE ValueOf(s, i, j - 1) * 10 + ((CHOOSE d \in DOMAIN Digit : Digit[d] = Ch(s, j)) - 1)

\* the u32 written in digits i .. j - 1 (ten digits at most), or out of
\* range: 2^32 - 1 = 429496729 * 10 + 5, 2^31 = 214748364 * 10 + 8
U32OfDigits(s, i, j) ==
    LET Parts(q, r) ==
            IF q > 429496729 \/ (q = 429496729 /\ r > 5)
            THEN [fits |-> FALSE, val |-> U32Of(0)]
            ELSE IF q < 214748364 \/ (q = 214748364 /\ r < 8)
                 THEN [fits |-> TRUE, val |-> U32Of(q * 10 + r)]
            ELSE IF q = 214748364 THEN [fits |-> TRUE, val |-> U32High(r - 8)]
            ELSE [fits |-> TRUE, val |-> U32High(((q - 214748365) * 10 + r) + 2)]
    IN  IF j - i <= 9 THEN [fits |-> TRUE, val |-> U32Of(ValueOf(s, i, j - 1))]
        ELSE Parts(ValueOf(s, i, j - 2), ValueOf(s, j - 1, j - 1))

\* parse_ident: the bytes of word are due from i on; each byte is taken
\* before it is compared
RECURSIVE ParseIdent(_, _, _)
ParseIdent(s, i, word) ==
    LET Of(c) ==
            IF c = "more" THEN More
            ELSE IF c # SubSeq(word, 1, 1) THEN ErrAt(i + 1)
            ELSE ParseIdent(s, i + 1, SubSeq(word, 2, Len(word)))
    IN  IF word = "" THEN Ok(i, <<>>) ELSE Of(Ch(s, i))

\* parse_integer with parse_long_integer, parse_number, parse_decimal,
\* parse_decimal_overflow, parse_exponent, parse_exponent_overflow and
\* f64_from_parts, byte by byte: `at` is the place in the code that looks at
\* the answer p, n what it has gathered.  n.int tells an integer, written in
\* the digits n.from .. n.to - 1, from a number with a fraction or an
\* exponent or past u64; n.sig is the significand (a u64) in decimal, ""
\* for 0; n.scale the exponent the digits give (one up for each digit of an
\* integer that the significand could not take, one down for each digit of
\* the fraction that it took); n.up an exponent that is not negative, n.exp
\* the exponent read so far.  A number that is no integer and that f64 cannot
\* hold is an error; the value of one that f64 holds is of no account: no
\* field takes it.  Digits that are only passed over are passed over in one
\* step.
RECURSIVE ParseInteger(_, _, _, _)
ParseInteger(s, p, at, n) ==
    LET U64Max == "18446744073709551615"
        \* for the exponents 289 .. 308 the least significand whose product
        \* with POW10[exponent], in f64, is infinite
        Least == <<"17976931348623156225", "1797693134862315649", "179769313486231600",
                   "17976931348623158", "1797693134862316", "179769313486232",
                   "17976931348624", "1797693134863", "179769313487", "17976931349",
                   "1797693135", "179769314", "17976932", "1797694", "179770", "17977",
                   "1798", "180", "18", "2">>
        D(str, k) == CHOOSE d \in 0 .. 9 : Digit[d + 1] = SubSeq(str, k, k)
        \* a > b, of two numbers written without leading zeros
        Above(a, b) ==
            \/ Len(a) > Len(b)
            \/ /\ Len(a) = Len(b)
               /\ \E k \in 1 .. Len(a) :
                     D(a, k) > D(b, k) /\ SubSeq(a, 1, k - 1) = SubSeq(b, 1, k - 1)
        \* significand * 10 + digit
        Grown(c) == IF n.sig = "" /\ c = "0" THEN "" ELSE n.sig \o c
        Wide(d) == n.exp > 214748364 \/ (n.exp = 214748364 /\ d > 7)
        \* starting_exp.saturating_add(exp), or saturating_sub
        FinalExp ==
            IF n.up THEN (IF n.scale > 0 /\ n.exp > I32Max - n.scale THEN I32Max
                          ELSE n.scale + n.exp)
            ELSE IF n.scale < 0 /\ n.exp > (n.scale + I32Max) + 1 THEN (-I32Max) - 1
            ELSE n.scale - n.exp
        \* f64_from_parts(positive, significand, exponent)
        F64(pos, exponent) ==
            IF /\ n.sig # ""
               /\ \/ exponent > 308
                  \/ exponent >= 289 /\ ~Above(Least[exponent - 288], n.sig)
            THEN ErrAt(pos)
            ELSE Ok(pos, [n EXCEPT !.int = FALSE])
        Of(c, digit, past) ==
            IF c = "more" THEN More
            ELSE IF at = "first"
                 THEN (IF digit
                       THEN ParseInteger(s, p + 1, IF c = "0" THEN "zero" ELSE "digits",
                                         [int |-> TRUE, from |-> p, to |-> p,
                                          sig |-> IF c = "0" THEN "" ELSE c, scale |-> 0,
                                          up |-> TRUE, exp |-> 0])
                       ELSE ErrAt(p + 1))
            ELSE IF at = "zero"
                 THEN (IF digit THEN ErrAt(p)
                       ELSE ParseInteger(s, past, "number", [n EXCEPT !.to = p]))
            ELSE IF at = "digits"
                 THEN (IF ~digit THEN ParseInteger(s, past, "number", [n EXCEPT !.to = p])
                       ELSE IF Above(Grown(c), U64Max)
                            THEN ParseInteger(s, p + 1, "long", [n EXCEPT !.scale = 1])
                       ELSE ParseInteger(s, p + 1, at, [n EXCEPT !.sig = Grown(c)]))
            ELSE IF at \in {"number", "long"}
                 THEN (IF digit /\ at = "long"
                       THEN ParseInteger(s, Span(s, p, Digits), at,
                                         [n EXCEPT !.scale = @ + (Span(s, p, Digits) - p)])
                       ELSE IF c = "." THEN ParseInteger(s, p + 1, "point", n)
                       ELSE IF c \in {"e", "E"} THEN ParseInteger(s, p + 1, "exponent", n)
                       ELSE IF at = "long" THEN F64(past, n.scale)
                       ELSE Ok(past, n))
            ELSE IF at \in {"point", "fraction"}
                 THEN (IF ~digit
                       THEN ParseInteger(s, past, IF at = "point" THEN "no digit" ELSE "decimal", n)
                       ELSE IF Above(Grown(c), U64Max)
                            THEN ParseInteger(s, p + 1, "fraction overflow", n)
                       ELSE ParseInteger(s, p + 1, "fraction",
                                         [n EXCEPT !.sig = Grown(c), !.scale = @ - 1]))
            ELSE IF at = "fraction overflow"
                 THEN (IF digit THEN ParseInteger(s, Span(s, p, Digits), at, n)
                       ELSE ParseInteger(s, past, "decimal", n))
            ELSE IF at = "no digit" THEN ErrAt(past)
            ELSE IF at = "decimal"
                 THEN (IF c \in {"e", "E"} THEN ParseInteger(s, p + 1, "exponent", n)
                       ELSE F64(past, n.scale))
            ELSE IF at = "exponent"
                 THEN (IF c \in {"+", "-"}
                       THEN ParseInteger(s, p + 1, "exponent digit", [n EXCEPT !.up = c = "+"])
                       ELSE ParseInteger(s, past, "exponent digit", n))
            ELSE IF at = "exponent digit"
                 THEN (IF digit
                       THEN ParseInteger(s, p + 1, "exponent digits",
                                         [n EXCEPT !.exp = ValueOf(s, p, p)])
                       ELSE ErrAt(p + 1))
            ELSE IF at = "exponent digits"
                 THEN (IF ~digit THEN F64(past, FinalExp)
                       ELSE IF ~Wide(ValueOf(s, p, p))
                            THEN ParseInteger(s, p + 1, at,
                                              [n EXCEPT !.exp = @ * 10 + ValueOf(s, p, p)])
                       ELSE IF n.up /\ n.sig # "" THEN ErrAt(p + 1)
                       ELSE ParseInteger(s, p + 1, "exponent overflow", n))
            ELSE IF digit THEN ParseInteger(s, Span(s, p, Digits), at, n)
            ELSE Ok(past, [n EXCEPT !.int = FALSE])
        With(c) == Of(c, c \in Digits, IF c = "" THEN p + 1 ELSE p)
    IN  With(Ch(s, p))

\* decode_hex_escape: the `left` bytes still due are taken, then the four are
\* decoded; n is the number so far, -1 once a byte is no hex digit
RECURSIVE DecodeHex(_, _, _, _)
DecodeHex(s, k, left, n) ==
    LET Hex(c) == {v \in 0 .. 15 : c \in {SubSeq("0123456789abcdef", v + 1, v + 1),
                                          SubSeq("0123456789ABCDEF", v + 1, v + 1)}}
        Digit16(hex) ==
            IF n < 0 \/ hex = {} THEN -1 ELSE n * 16 + (CHOOSE v \in hex : TRUE)
        Of(c) ==
            IF c = "more" THEN More
            ELSE IF c = "" THEN ErrAt(k + 1)
            ELSE DecodeHex(s, k + 1, left - 1, Digit16(Hex(c)))
    IN  IF left > 0 THEN Of(Ch(s, k))
        ELSE IF n < 0 THEN ErrAt(k)
        ELSE Ok(k, n)

\* the character of code point n; one that a string of the model cannot
\* hold is written as ZeroByte, which no field name holds
CharOf(n) ==
    LET Upper == " !\"#$%&'()*+,-./0123456789:;<=>?@ABCDEFGHIJKLMNOPQRSTUVWXYZ[\\]^_"
        Lower == "abcdefghijklmnopqrstuvwxyz{|}~"
    IN  IF n >= 32 /\ n <= 95 THEN SubSeq(Upper, n - 31, n - 31)
        ELSE IF n >= 97 /\ n <= 126 THEN SubSeq(Lower, n - 96, n - 96)
        ELSE IF n = 9 THEN "\t"
        ELSE IF n = 10 THEN "\n"
        ELSE IF n = 13 THEN "\r"
        ELSE ZeroByte

\* parse_escape (validate) and ignore_escape (~validate), the backslash
\* taken: val is the character the escape stands for.  Only parse_escape
\* wants the surrogates of \u paired: behind a leading one (lead) the
\* backslash and the u of the trailing one are due at k.
RECURSIVE ParseEscape(_, _, _, _)
ParseEscape(s, k, validate, lead) ==
    LET Unicode(n) ==
            IF n.st # "ok" THEN n
            ELSE IF ~validate THEN Ok(n.pos, "")
            ELSE IF lead
                 THEN (IF n.val < 56320 \/ n.val > 57343 THEN ErrAt(n.pos)
                       ELSE Ok(n.pos, ZeroByte))
            ELSE IF n.val >= 56320 /\ n.val <= 57343 THEN ErrAt(n.pos)
            ELSE IF n.val >= 55296 /\ n.val <= 56319 THEN ParseEscape(s, n.pos, validate, TRUE)
            ELSE Ok(n.pos, CharOf(n.val))
        Of(c, u) ==
            IF c = "more" THEN More
            ELSE IF lead /\ c # "\\" THEN ErrAt(k + 1)
            ELSE IF lead /\ u = "more" THEN More
            ELSE IF lead /\ u # "u" THEN ErrAt(k + 2)
            ELSE IF lead \/ c = "u" THEN Unicode(DecodeHex(s, IF lead THEN k + 2 ELSE k + 1, 4, 0))
            ELSE IF c \in {"\"", "\\", "/"} THEN Ok(k + 1, c)
            ELSE IF c = "n" THEN Ok(k + 1, "\n")
            ELSE IF c = "r" THEN Ok(k + 1, "\r")
            ELSE IF c = "t" THEN Ok(k + 1, "\t")
            ELSE IF c \in {"b", "f"} THEN Ok(k + 1, ZeroByte)
            ELSE ErrAt(k + 1)
    IN  Of(Ch(s, k), Ch(s, k + 1))

\* parse_str (validate, for a member name) and ignore_str (~validate), the
\* opening quote taken: pos is past the closing quote, val the text decoded
\* so far
RECURSIVE ParseStr(_, _, _, _)
ParseStr(s, i, text, validate) ==
    LET Escaped(e) ==
            IF e.st # "ok" THEN e
            ELSE ParseStr(s, e.pos, IF validate THEN text \o e.val ELSE text, validate)
        Of(c) ==
            IF c = "more" THEN More
            ELSE IF c = "\"" THEN Ok(i + 1, text)
            ELSE IF c = "\\" THEN Escaped(ParseEscape(s, i + 1, validate, FALSE))
            ELSE IF c \in {"", ZeroByte, "\n", "\t", "\r"} THEN ErrAt(i + 1)
            ELSE ParseStr(s, i + 1, IF validate THEN text \o c ELSE text, validate)
    IN  Of(Ch(s, i))

\* ignore_integer with ignore_decimal and ignore_exponent, byte by byte:
\* `at` is the place in the code that looks at the answer p
RECURSIVE IgnoreInteger(_, _, _)
IgnoreInteger(s, p, at) ==
    LET Of(c, digit, past) ==
            IF c = "more" THEN More
            ELSE IF at = "first"
                 THEN (IF digit THEN IgnoreInteger(s, p + 1, IF c = "0" THEN "zero" ELSE "digits")
                       ELSE ErrAt(p + 1))
            ELSE IF at = "zero"
                 THEN (IF digit THEN ErrAt(p) ELSE IgnoreInteger(s, past, "number"))
            ELSE IF at = "number"
                 THEN (IF c = "." THEN IgnoreInteger(s, p + 1, "point")
                       ELSE IF c \in {"e", "E"} THEN IgnoreInteger(s, p + 1, "exponent")
                       ELSE Ok(past, <<>>))
            ELSE IF at = "point"
                 THEN (IF digit THEN IgnoreInteger(s, p + 1, "fraction") ELSE ErrAt(past))
            ELSE IF at = "decimal"
                 THEN (IF c \in {"e", "E"} THEN IgnoreInteger(s, p + 1, "exponent")
                       ELSE Ok(past, <<>>))
            ELSE IF at = "exponent"
                 THEN IgnoreInteger(s, IF c \in {"+", "-"} THEN p + 1 ELSE past, "exponent digit")
            ELSE IF at = "exponent digit"
                 THEN (IF digit THEN IgnoreInteger(s, p + 1, "exponent digits") ELSE ErrAt(p + 1))
            ELSE IF digit THEN IgnoreInteger(s, p + 1, at)
            ELSE IF at = "digits" THEN IgnoreInteger(s, past, "number")
            ELSE IF at = "fraction" THEN IgnoreInteger(s, past, "decimal")
            ELSE Ok(past, <<>>)
        With(c) == Of(c, c \in Digits, IF c = "" THEN p + 1 ELSE p)
    IN  With(Ch(s, p))

\* parse_object_colon, the first step of MapAccess::next_value
ObjectColon(s, p) ==
    LET j == SkipWs(s, p)
        c == Ch(s, j)
    IN  IF c = "more" THEN More
        ELSE IF c = "" THEN ErrAt(j + 1)
        ELSE IF c = ":" THEN Ok(j + 1, <<>>)
        ELSE ErrAt(j)

\* ignore_value, for a member of a name the struct does not have: any JSON
\* value.  stack holds the brackets that are open, the innermost first.
\* IgnoreValue is the head of its loop, where a value is due; IgnoreFrames
\* is the loop behind a value or an opening bracket.
RECURSIVE IgnoreValue(_, _, _)
RECURSIVE IgnoreFrames(_, _, _, _)
IgnoreValue(s, i, stack) ==
    LET j == SkipWs(s, i)
        c == Ch(s, j)
        \* the rest of true, false or null behind its first letter
        rest == IF c = "n" THEN "ull" ELSE IF c = "t" THEN "rue" ELSE "alse"
        Behind(r, open) ==
            IF r.st # "ok" THEN r
            ELSE IF open = <<>> /\ stack = <<>> THEN Ok(r.pos, <<>>)
            ELSE IgnoreFrames(s, r.pos, open \o stack, open = <<>>)
    IN  IF c = "more" THEN More
        ELSE IF c = "" THEN ErrAt(j + 1)
        ELSE Behind(IF c \in {"[", "{"} THEN Ok(j + 1, <<>>)
                    ELSE IF c \in {"n", "t", "f"} THEN ParseIdent(s, j + 1, rest)
                    ELSE IF c = "\"" THEN ParseStr(s, j + 1, "", FALSE)
                    ELSE IF c \in Digits \cup {"-"}
                         THEN IgnoreInteger(s, IF c = "-" THEN j + 1 ELSE j, "first")
                    ELSE ErrAt(j),
                    IF c \in {"[", "{"} THEN <<c>> ELSE <<>>)

IgnoreFrames(s, p, stack, accept_comma) ==
    LET j == SkipWs(s, p)
        c == Ch(s, j)
        \* where the next item starts, behind a comma that is due
        item == IF accept_comma THEN j + 1 ELSE j
        k == SkipWs(s, item)
        Colon(key) == IF key.st # "ok" THEN key ELSE ObjectColon(s, key.pos)
        Value(r) == IF r.st # "ok" THEN r ELSE IgnoreValue(s, r.pos, stack)
    IN  IF c = "more" THEN More
        ELSE IF c = "" THEN ErrAt(j + 1)
        ELSE IF c = (IF Head(stack) = "{" THEN "}" ELSE "]")
             THEN (IF Len(stack) = 1 THEN Ok(j + 1, <<>>)
                   ELSE IgnoreFrames(s, j + 1, Tail(stack), TRUE))
        ELSE IF accept_comma /\ c # "," THEN ErrAt(j)
        ELSE Value(IF Head(stack) # "{" THEN Ok(item, <<>>)
                   ELSE IF Ch(s, k) = "more" THEN More
                   ELSE IF Ch(s, k) = "" THEN ErrAt(k + 1)
                   ELSE IF Ch(s, k) = "\"" THEN Colon(ParseStr(s, k + 1, "", FALSE))
                   ELSE ErrAt(k))

\* peek_invalid_type: the value at j is not of the kind that is due; a
\* literal, a number or a string is taken whole before the error
InvalidType(s, j) ==
    LET c == Ch(s, j)
        \* the rest of true, false or null behind its first letter
        rest == IF c = "n" THEN "ull" ELSE IF c = "t" THEN "rue" ELSE "alse"
        Taken(r) == IF r.st = "ok" THEN ErrAt(r.pos) ELSE r
    IN  IF c \notin {"n", "t", "f", "-", "\""} \cup Digits THEN ErrAt(j)
        ELSE Taken(IF c \in {"n", "t", "f"} THEN ParseIdent(s, j + 1, rest)
                   ELSE IF c = "\"" THEN ParseStr(s, j + 1, "", TRUE)
                   ELSE ParseInteger(s, IF c = "-" THEN j + 1 ELSE j, "first", <<>>))

\* deserialize_u16 / deserialize_u32: an unsigned integer of `wide` (u32) or
\* of 16 bits.  A number of another shape is taken whole before it is
\* refused.
ParseUnsigned(s, i, wide) ==
    LET j == SkipWs(s, i)
        c == Ch(s, j)
        Fitted(pos, n) ==
            IF ~n.fits THEN ErrAt(pos)
            ELSE IF wide THEN Ok(pos, n.val)
            ELSE IF n.val.hi = 1 \/ n.val.lo >= U16 THEN ErrAt(pos)
            ELSE Ok(pos, n.val.lo)
        Visit(r, negative) ==
            IF r.st # "ok" THEN r
            ELSE IF negative \/ ~r.val.int \/ r.val.to - r.val.from > 10 THEN ErrAt(r.pos)
            ELSE Fitted(r.pos, U32OfDigits(s, r.val.from, r.val.to))
    IN  IF c = "more" THEN More
        ELSE IF c = "" THEN ErrAt(j + 1)
        ELSE IF c \in Digits \cup {"-"}
             THEN Visit(ParseInteger(s, IF c = "-" THEN j + 1 ELSE j, "first", <<>>), c = "-")
        ELSE InvalidType(s, j)

\* MapAccess::next_key: "end" at the closing brace, which it leaves, else
\* the decoded name of the member, pos past its closing quote
NextKey(s, i, first) ==
    LET j == SkipWs(s, i)
        c == Ch(s, j)
        \* where the name starts, behind the comma of a member that is not first
        k == IF first THEN j ELSE SkipWs(s, j + 1)
        Name(key) ==
            IF key.st # "ok" THEN key ELSE Ok(key.pos, [end |-> FALSE, key |-> key.val])
    IN  IF c = "more" THEN More
        ELSE IF c = "" THEN ErrAt(j + 1)
        ELSE IF c = "}" THEN Ok(j, [end |-> TRUE, key |-> ""])
        ELSE IF ~first /\ c # "," THEN ErrAt(j)
        ELSE IF Ch(s, k) = "more" THEN More
        ELSE IF Ch(s, k) = "" THEN ErrAt(k + 1)
        ELSE IF Ch(s, k) = "\"" THEN Name(ParseStr(s, k + 1, "", TRUE))
        ELSE ErrAt(k)

\* SeqAccess::next_element up to the element: "end" at the closing bracket,
\* which it leaves, else the position of the element
NextElement(s, i, first) ==
    LET j == SkipWs(s, i)
        c == Ch(s, j)
        k == SkipWs(s, j + 1)
    IN  IF c = "more" THEN More
        ELSE IF c = "" THEN ErrAt(j + 1)
        ELSE IF c = "]" THEN Ok(j, [end |-> TRUE])
        ELSE IF first THEN Ok(j, [end |-> FALSE])
        ELSE IF c # "," THEN ErrAt(j)
        ELSE IF Ch(s, k) = "more" THEN More
        ELSE IF Ch(s, k) = "" THEN ErrAt(k + 1)
        ELSE IF Ch(s, k) = "]" THEN ErrAt(k)
        ELSE Ok(k, [end |-> FALSE])

\* deserialize_struct and deserialize_seq behind the visitor: end_map
\* (close "}") or end_seq (close "]") runs whether the visitor returned ret
\* with a value or with an error, and the error of the visitor is the one
\* returned
CloseWith(s, ret, close) ==
    LET j == SkipWs(s, ret.pos)
        c == Ch(s, j)
        k == SkipWs(s, j + 1)
    IN  IF ret.st = "more" \/ c = "more" THEN More
        ELSE IF c = "" THEN ErrAt(j + 1)
        ELSE IF c = close THEN (IF ret.st = "ok" THEN Ok(j + 1, ret.val) ELSE ErrAt(j + 1))
        ELSE IF c # "," \/ close # "]" THEN ErrAt(j)
        ELSE IF Ch(s, k) = "more" THEN More
        ELSE IF Ch(s, k) = "" THEN ErrAt(k + 1)
        ELSE ErrAt(k)

EntryFields == <<"f1", "f2", "delta_t", "anchor_time">>

\* FPHashEntry written as an object (visit_map): every field once, in any
\* order, members of other names skipped.  A name is looked up before the
\* colon behind it is read.  Member has the outcomes of next_key, of the
\* colon and of the value.
RECURSIVE EntryMembers(_, _, _, _)
EntryMembers(s, i, seen, first) ==
    LET Names == {EntryFields[k] : k \in DOMAIN EntryFields}
        key == NextKey(s, i, first)
        colon == ObjectColon(s, key.pos)
        Member(m, c, v) ==
            IF m.st # "ok" THEN m
            ELSE IF m.val.end
                 THEN (IF Names \subseteq DOMAIN seen THEN Ok(m.pos, seen) ELSE ErrAt(m.pos))
            ELSE IF m.val.key \in DOMAIN seen THEN ErrAt(m.pos)
            ELSE IF c.st # "ok" THEN c
            ELSE IF v.st # "ok" THEN v
            ELSE EntryMembers(s, v.pos,
                              IF m.val.key \notin Names THEN seen
                              ELSE [n \in DOMAIN seen \cup {m.val.key} |->
                                      IF n = m.val.key THEN v.val ELSE seen[n]],
                              FALSE)
    IN  Member(key, colon,
               IF key.val.key \in Names
               THEN ParseUnsigned(s, colon.pos, key.val.key = "anchor_time")
               ELSE IgnoreValue(s, colon.pos, <<>>))

\* FPHashEntry written as an array (visit_seq): the four fields in order
RECURSIVE EntryElements(_, _, _)
EntryElements(s, i, got) ==
    LET Element(e, v) ==
            IF e.st # "ok" THEN e
            ELSE IF e.val.end THEN ErrAt(e.pos)
            ELSE IF v.st # "ok" THEN v
            ELSE EntryElements(s, v.pos, Append(got, v.val))
    IN  IF Len(got) = Len(EntryFields)
        THEN Ok(i, [n \in {EntryFields[k] : k \in DOMAIN EntryFields} |->
                      got[CHOOSE k \in DOMAIN EntryFields : EntryFields[k] = n]])
        ELSE Element(NextElement(s, i, got = <<>>),
                     ParseUnsigned(s, NextElement(s, i, got = <<>>).pos, Len(got) = 3))

\* deserialize_struct for FPHashEntry
ParseEntry(s, i) ==
    LET j == SkipWs(s, i)
        c == Ch(s, j)
    IN  IF c = "more" THEN More
        ELSE IF c = "" THEN ErrAt(j + 1)
        ELSE IF c \in {"{", "["}
             THEN CloseWith(s, IF c = "{" THEN EntryMembers(s, j + 1, <<>>, TRUE)
                               ELSE EntryElements(s, j + 1, <<>>),
                            IF c = "{" THEN "}" ELSE "]")
        ELSE InvalidType(s, j)

\* Vec<FPHashEntry> (VecVisitor::visit_seq): the elements up to the closing
\* bracket, or the next `room` of them
RECURSIVE PairsBlock(_, _, _, _)
PairsBlock(s, i, got, room) ==
    LET Entry(v) ==
            [f1 |-> v["f1"], f2 |-> v["f2"], delta_t |-> v["delta_t"],
             anchor_time |-> v["anchor_time"]]
        Element(e, v) ==
            IF e.st # "ok" THEN e
            ELSE IF e.val.end THEN Ok(e.pos, [closed |-> TRUE, got |-> got])
            ELSE IF v.st # "ok" THEN v
            ELSE IF room = 1 THEN Ok(v.pos, [closed |-> FALSE, got |-> Append(got, Entry(v.val))])
            ELSE PairsBlock(s, v.pos, Append(got, Entry(v.val)), room - 1)
    IN  Element(NextElement(s, i, got = <<>>),
                ParseEntry(s, NextElement(s, i, got = <<>>).pos))

RECURSIVE PairsElements(_, _, _)
PairsElements(s, i, got) ==
    LET Blocks(b) ==
            IF b.st # "ok" THEN b
            ELSE IF b.val.closed THEN Ok(b.pos, b.val.got)
            ELSE PairsElements(s, b.pos, b.val.got)
    IN  Blocks(PairsBlock(s, i, got, 8))

\* deserialize_seq for the field pairs
ParsePairs(s, i) ==
    LET j == SkipWs(s, i)
        c == Ch(s, j)
    IN  IF c = "more" THEN More
        ELSE IF c = "" THEN ErrAt(j + 1)
        ELSE IF c = "[" THEN CloseWith(s, PairsElements(s, j + 1, <<>>), "]")
        ELSE InvalidType(s, j)

\* FingerprintData written as an object (visit_map): Member has the
\* outcomes of next_key, of the colon and of the value
RECURSIVE DataMembers(_, _, _, _)
DataMembers(s, i, seen, first) ==
    LET key == NextKey(s, i, first)
        colon == ObjectColon(s, key.pos)
        Member(m, c, v) ==
            IF m.st # "ok" THEN m
            ELSE IF m.val.end THEN (IF Len(seen) = 1 THEN Ok(m.pos, seen[1]) ELSE ErrAt(m.pos))
            ELSE IF m.val.key = "pairs" /\ Len(seen) = 1 THEN ErrAt(m.pos)
            ELSE IF c.st # "ok" THEN c
            ELSE IF v.st # "ok" THEN v
            ELSE DataMembers(s, v.pos, IF m.val.key = "pairs" THEN <<v.val>> ELSE seen, FALSE)
    IN  Member(key, colon,
               IF key.val.key = "pairs" THEN ParsePairs(s, colon.pos)
               ELSE IgnoreValue(s, colon.pos, <<>>))

\* FingerprintData written as an array of its one field (visit_seq)
DataElements(s, i) ==
    LET Element(e, v) ==
            IF e.st # "ok" THEN e
            ELSE IF e.val.end THEN ErrAt(e.pos)
            ELSE v
    IN  Element(NextElement(s, i, TRUE), ParsePairs(s, NextElement(s, i, TRUE).pos))

\* from_reader on the stream s: deserialize_struct for FingerprintData, then
\* Deserializer::end, which wants nothing but white space up to a read that
\* returns no byte
ParseDocument(s) ==
    LET j == SkipWs(s, 1)
        c == Ch(s, j)
        End(d, k) ==
            IF d.st # "ok" THEN d
            ELSE IF Ch(s, k) = "more" THEN More
            ELSE IF Ch(s, k) = "" THEN Ok(k + 1, d.val)
            ELSE ErrAt(k)
        Whole(d) == End(d, SkipWs(s, d.pos))
    IN  Whole(IF c = "more" THEN More
              ELSE IF c = "" THEN ErrAt(j + 1)
              ELSE IF c \in {"{", "["}
                   THEN CloseWith(s, IF c = "{" THEN DataMembers(s, j + 1, <<>>, TRUE)
                                     ELSE DataElements(s, j + 1),
                                  IF c = "{" THEN "}" ELSE "]")
              ELSE InvalidType(s, j))

\* -------------------------------------------------- decode_ogg_to_mono_f32
Undecodable == [kind |-> "undecodable", pcm |-> [len |-> 0, cols |-> <<>>]]

Decodable(pcm) == [kind |-> "ogg", pcm |-> pcm]

decode_ogg_to_mono_f32(audio) ==
    IF audio.kind = "ogg" THEN [status |-> "ok", pcm |-> audio.pcm]
    ELSE [status |-> "err", pcm |-> audio.pcm]

\* ------------------------------------------------------- extract_snippet
\* start_idx and end_idx are the rounded sample indices; the slice keeps
\* the frames of pcm that lie wholly inside it (start_idx on a hop boundary)
extract_snippet(pcm, start_idx, end_idx) ==
    LET s == Min(start_idx, pcm.len)
        e == Min(end_idx, pcm.len)
        n == IF e - s >= window_size THEN ((e - s - window_size) \div hop_size) + 1 ELSE 0
    IN  IF s > e THEN [status |-> "panic", pcm |-> [len |-> 0, cols |-> <<>>]]
        ELSE [status |-> "ok",
              pcm |-> [len |-> e - s,
                       cols |-> SubSeq(pcm.cols, (s \div hop_size) + 1, (s \div hop_size) + n)]]

\* --------------------------------------------- what the environment holds
\* the audio behind SAMPLE_PATH, and SAMPLE_BEGIN and SAMPLE_END in samples
SampleAudioInputs == {Undecodable, Decodable(ClipOf(<<2, 0, 0>>))}
StartIdxInputs == {0, hop_size}
EndIdxInputs == {0, PcmLenOfFrames(3)}

\* the audio behind a track path
TrackAudioInputs ==
    {Undecodable, Decodable([len |-> window_size - 1, cols |-> <<>>]),
     Decodable(ClipOf(<<0, 0>>))}

\* the audio behind the one stem two callers look up
RaceAudioInputs == {Undecodable, Decodable(ClipOf(<<0, 0>>)), Decodable(LongClip)}

\* a stored fingerprint with anchor times of 2^32 - 1 and 2^31, as a file
\* put into hashes/ by hand can hold
WidePairs ==
    [i \in 1 .. 7 |->
       IF i <= 6 THEN [f1 |-> 1, f2 |-> 1, delta_t |-> 1, anchor_time |-> U32High(I32Max)]
       ELSE [f1 |-> 1, f2 |-> 3, delta_t |-> 1, anchor_time |-> U32High(0)]]

\* how the disk can fail one call
DiskInputs ==
    {NoFault,
     [NoFault EXCEPT !.dir = FALSE],
     [NoFault EXCEPT !.stat = FALSE],
     [NoFault EXCEPT !.stat = FALSE, !.create = FALSE],
     [NoFault EXCEPT !.open = FALSE],
     [NoFault EXCEPT !.create = FALSE],
     [NoFault EXCEPT !.writes = <<FALSE>>]}

\* the fingerprints the model saves, their serializations evaluated once
SavedPairs ==
    {Fingerprint(a.pcm).pairs :
        a \in {x \in TrackAudioInputs \cup RaceAudioInputs :
                 x.kind = "ogg" /\ Fingerprint(x.pcm).status = "ok"}} \cup {WidePairs}

ChunksTable == [pairs \in SavedPairs |-> ChunksOf(SerializePieces(pairs))] @@ <<>>

\* the writes of lines 362-363 for data.pairs = pairs
BufWrites(pairs) == Memo(ChunksTable, pairs, ChunksOf(SerializePieces(pairs)))

\* serde_json::to_writer_pretty(writer, &data): the whole document
Serialize(pairs) == WriteChunks(BufWrites(pairs), 1, "", NoFault).bytes

\* an entry that is present but is not a fingerprint document
CorruptFile == FileOf("{\n  \"pairs\": [")

\* the stored fingerprint with the wide anchor times
WideFile == FileOf(Serialize(WidePairs))

\* the files a call of the batch scan can find or leave, their parses
\* evaluated once
StoredBytes ==
    {WriteChunks(BufWrites(pairs), 1, "", disk).bytes : pairs \in SavedPairs, disk \in DiskInputs}
        \cup {"", CorruptFile.bytes}

ParseTable == [bytes \in StoredBytes |-> ParseDocument(WholeFile(bytes))] @@ <<>>

\* serde_json::from_reader(reader) on a file that holds bytes and that no
\* one writes to meanwhile
Deserialize(bytes) ==
    LET Read(d) ==
            IF d.st = "ok" THEN [status |-> "ok", pairs |-> d.val]
            ELSE [status |-> "err", pairs |-> <<>>]
    IN  Read(Memo(ParseTable, bytes, ParseDocument(WholeFile(bytes))))

Parses(bytes) == Deserialize(bytes).status = "ok"

\* the snippet fingerprints the batch scan can hold, and the double loop of
\* each against each saved fingerprint, evaluated once
SnippetPairs ==
    {Fingerprint(cut.pcm).pairs :
        cut \in {c \in {extract_snippet(a.pcm, start_idx, end_idx) :
                          a \in {x \in SampleAudioInputs : x.kind = "ogg"},
                          start_idx \in StartIdxInputs, end_idx \in EndIdxInputs} :
                    c.status = "ok" /\ Fingerprint(c.pcm).status = "ok"}}

DiffsTable == [q \in SnippetPairs \X SavedPairs |-> DiffsOf(q[1], q[2])] @@ <<>>

\* ----------------------------------------------- load_or_build_fingerprint
\* What one call returns and leaves on disk, given the stored file, the
\* audio behind track_path and the disk.  built counts the calls of decode
\* + extract.
LoadResult(status, pairs, file, built) ==
    [status |-> status, pairs |-> pairs, file |-> file, built |-> built]

\* lines 349-354: open the stored file and parse it
LoadStored(stored, disk) ==
    LET Loaded(data) == LoadResult(data.status, data.pairs, stored, 0)
    IN  IF ~disk.open THEN LoadResult("err", <<>>, stored, 0)
        ELSE Loaded(Deserialize(stored.bytes))

\* lines 356-364: decode, fingerprint, save; File::create empties an entry
\* that is there
BuildAndSave(stored, audio, disk) ==
    LET pcm == decode_ogg_to_mono_f32(audio)
    IN  IF pcm.status = "err" THEN LoadResult("err", <<>>, stored, 1)
        ELSE LET data == Fingerprint(pcm.pcm)
             IN  IF data.status = "panic" THEN LoadResult("panic", <<>>, stored, 1)
                 ELSE IF ~disk.create THEN LoadResult("err", <<>>, stored, 1)
                 ELSE LET out == WriteChunks(BufWrites(data.pairs), 1, "", disk)
                      IN  LoadResult(out.status,
                                     IF out.status = "ok" THEN data.pairs ELSE <<>>,
                                     FileOf(out.bytes), 1)

\* lines 341-343, then line 348: Path::exists() is true when the metadata of
\* the entry can be read, and false when the entry is not there or its
\* metadata cannot be read
load_or_build_fingerprint(stored, audio, disk) ==
    IF ~disk.dir THEN LoadResult("err", <<>>, stored, 0)
    ELSE IF stored.exists /\ disk.stat THEN LoadStored(stored, disk)
    ELSE BuildAndSave(stored, audio, disk)

\* ------------------------------------------------- find_matches, as a whole
\* every (result, file left on disk) one call can end with; site names the
\* line a panic comes from
FindResult(status, match, load, site) ==
    [status |-> status, match |-> match, pairs |-> load.pairs,
     file |-> load.file, built |-> load.built, site |-> site]

find_matches(stored, audio, snippet_pairs, disk, checks) ==
    LET Matched(load) ==
            IF load.status = "panic" THEN {FindResult("panic", NoMatch, load, "pcm_index")}
            ELSE IF load.status # "ok" THEN {FindResult(load.status, NoMatch, load, "")}
            ELSE {IF m = Panicked THEN FindResult("panic", NoMatch, load, "subtract")
                  ELSE FindResult("ok", m, load, "") :
                     m \in ResultsOf(Memo(DiffsTable, <<snippet_pairs, load.pairs>>,
                                          DiffsOf(snippet_pairs, load.pairs)),
                                     checks)}
    IN  Matched(load_or_build_fingerprint(stored, audio, disk))

\* ----------------------------------------------------------- ensure_ogg
\* is_ogg: the path has the extension; converted_exists: the sibling .ogg is
\* there; has_parent, has_file_name: what path.parent() and
\* new_path.file_name() give; ffmpeg: how the converter ends when it is
\* run.  how is why the call failed.
ensure_ogg(is_ogg, converted_exists, has_parent, has_file_name, ffmpeg) ==
    IF is_ogg THEN [status |-> "ok", how |-> ""]
    ELSE IF converted_exists THEN [status |-> "ok", how |-> ""]
    ELSE IF ~has_parent THEN [status |-> "err", how |-> "invalid_path"]
    ELSE IF ~has_file_name THEN [status |-> "err", how |-> "missing_filename"]
    ELSE IF ffmpeg # "success" THEN [status |-> "err", how |-> ffmpeg]
    ELSE [status |-> "ok", how |-> ""]

\* ------------------------------------------------------------------ state
VARIABLES
    pc,          \* where main is: "start", "scan", "exit_ok", "exit_err", "panicked"
    run,         \* which run of the program this is
    snippet,     \* the snippet PCM whose fingerprint is snippet_fp
    next_idx,    \* index into ogg_files of the next track the loop takes
    in_flight,   \* tracks whose find_matches future is started and not finished
    hashes,      \* the hashes/ directory: track -> <stem>.json
    reports,     \* track -> outcomes logged for it in this run
    first_fp,    \* track -> the fingerprint the first successful build returned,
                 \*          and whether that was in an earlier run
    last_call,   \* the latest find_matches call: its track, inputs and result
    panic_site,  \* what panicked: "", "slice" (extract_snippet), "pcm_index",
                 \*          "subtract" (find_matches)
    convert_err, \* how the converter failed in this run: "", "nonzero",
                 \*          "spawn_failed"
    \* one call of the matcher (steps 2-5 of find_matches)
    m_snippet, m_track, m_pc, m_offset_count, m_result,
    \* one call of compute_spectrogram
    sp_len, sp_pc, sp_ret,
    \* two calls of load_or_build_fingerprint for one key, side by side
    r_pc, r_dir, r_file, r_check, r_data, r_written, r_read, r_ret, r_last_writer,
    \* steps 2-5 of find_matches on two given fingerprints, run twice
    v_snippet, v_track, v_checks, v_pc, v_offset_count, v_results,
    \* one call of compute_fingerprint on a clip of many frames
    l_clip, l_pc, l_peaks, l_ret

bvars == <<pc, run, snippet, next_idx, in_flight, hashes, reports, first_fp, last_call,
           panic_site, convert_err>>
mvars == <<m_snippet, m_track, m_pc, m_offset_count, m_result>>
svars == <<sp_len, sp_pc, sp_ret>>
rvars == <<r_pc, r_dir, r_file, r_check, r_data, r_written, r_read, r_ret, r_last_writer>>
vvars == <<v_snippet, v_track, v_checks, v_pc, v_offset_count, v_results>>
lvars == <<l_clip, l_pc, l_peaks, l_ret>>
vars == <<bvars, mvars, svars, rvars, vvars, lvars>>

Tracks == 1 .. NumTracks

NoPcm == [len |-> 0, cols |-> <<>>]
NoCall == [track |-> 0, status |-> "none", match |-> NoMatch, pairs |-> <<>>,
           built |-> 0, audio |-> Undecodable, unreadable |-> FALSE]
NoFp == [set |-> FALSE, pairs |-> <<>>, earlier |-> FALSE]

\* what else the environment can hand the program
FfmpegInputs == {"success", "nonzero", "spawn_failed"}

\* SAMPLE_PATH: a path with a file name has a parent, and one that ends in
\* .ogg has a file name
PathInputs ==
    {path \in [is_ogg : BOOLEAN, has_parent : BOOLEAN, has_file_name : BOOLEAN] :
        /\ path.is_ogg => path.has_file_name
        /\ path.has_file_name => path.has_parent}

\* the disk faults a call can meet when hashes/ holds hs: hashes/ is missing
\* only while it holds nothing, and the disk is full only for the first
\* entry saved
DiskInputsAt(hs) ==
    {disk \in DiskInputs :
        (disk.dir /\ disk.writes = <<>>) \/ \A t \in DOMAIN hs : ~hs[t].exists}
BatchIdle ==
    /\ pc = "idle" /\ run = 0 /\ snippet = NoPcm /\ next_idx = 0 /\ in_flight = {}
    /\ hashes = <<>> /\ reports = <<>> /\ first_fp = <<>> /\ last_call = NoCall
    /\ panic_site = "" /\ convert_err = ""

MatchIdle ==
    /\ m_snippet = NoPcm /\ m_track = NoPcm /\ m_pc = "idle"
    /\ m_offset_count = <<>> /\ m_result = NoMatch

SpectrogramIdle == sp_len = 0 /\ sp_pc = "idle" /\ sp_ret = <<>>

RaceIdle ==
    /\ r_pc = <<>> /\ r_dir = FALSE /\ r_file = AbsentFile /\ r_check = <<>>
    /\ r_data = <<>> /\ r_written = <<>>
    /\ r_read = <<>> /\ r_ret = <<>> /\ r_last_writer = 0

VoteIdle ==
    /\ v_snippet = <<>> /\ v_track = <<>> /\ v_checks = FALSE /\ v_pc = "idle"
    /\ v_offset_count = <<>> /\ v_results = <<>>

LandmarkIdle == l_clip = NoPcm /\ l_pc = "idle" /\ l_peaks = <<>> /\ l_ret = <<>>

\* ------------------------------------------------------------------- main
Init ==
    /\ pc = "start"
    /\ run = 1
    /\ snippet = NoPcm
    /\ next_idx = 1
    /\ in_flight = {}
    \* a hashes/ directory that is empty or holds an entry for the first track
    /\ hashes \in {h \in [Tracks -> {AbsentFile, CorruptFile, WideFile}] :
                     \A t \in Tracks : h[t].exists => t = 1}
    /\ reports = [t \in Tracks |-> 0]
    /\ first_fp = [t \in Tracks |-> NoFp]
    /\ last_call = NoCall
    /\ panic_site = "" /\ convert_err = ""
    /\ MatchIdle /\ SpectrogramIdle /\ RaceIdle /\ VoteIdle /\ LandmarkIdle

\* lines 20-53: configuration, the sample, its snippet and fingerprint, and
\* the listing of the music directory
StartupOutcome(config_ok, conv, sample, start_idx, end_idx, dir_ok) ==
    LET pcm == decode_ogg_to_mono_f32(sample)
        cut == extract_snippet(pcm.pcm, start_idx, end_idx)
        End(to, snip, site) == [pc |-> to, snippet |-> snip, site |-> site,
                                conv |-> ""]
    IN  IF ~config_ok THEN End("exit_err", NoPcm, "")
        ELSE IF conv.status = "err"
             THEN [pc |-> "exit_err", snippet |-> NoPcm, site |-> "", conv |-> conv.how]
        ELSE IF pcm.status = "err" THEN End("exit_err", NoPcm, "")
        ELSE IF cut.status = "panic" THEN End("panicked", NoPcm, "slice")
        ELSE IF Fingerprint(cut.pcm).status = "panic"
             THEN End("panicked", cut.pcm, "pcm_index")
        ELSE IF ~dir_ok THEN End("exit_err", cut.pcm, "")
        ELSE End("scan", cut.pcm, "")

Startup ==
    /\ pc = "start"
    /\ \E config_ok \in BOOLEAN, path \in PathInputs, converted_exists \in BOOLEAN,
          ffmpeg \in FfmpegInputs, sample \in SampleAudioInputs,
          start_idx \in StartIdxInputs, end_idx \in EndIdxInputs, dir_ok \in BOOLEAN :
          LET o == StartupOutcome(config_ok,
                                  ensure_ogg(path.is_ogg, converted_exists, path.has_parent,
                                             path.has_file_name, ffmpeg),
                                  sample, start_idx, end_idx, dir_ok)
          IN  /\ pc' = o.pc
              /\ snippet' = o.snippet
              /\ panic_site' = o.site
              /\ convert_err' = o.conv
    /\ UNCHANGED <<run, next_idx, in_flight, hashes, reports, first_fp, last_call>>
    /\ UNCHANGED <<mvars, svars, rvars, vvars, lvars>>

\* a loop that starts every future without awaiting the one before
AwaitDone_spawned(flying) == TRUE

\* line 57: the loop awaits the future of one track before it takes the next
AwaitDone(flying) == flying = {}

BeginTrack ==
    /\ pc = "scan"
    /\ next_idx <= NumTracks
    /\ AwaitDone(in_flight)
    /\ in_flight' = in_flight \cup {next_idx}
    /\ next_idx' = next_idx + 1
    /\ UNCHANGED <<pc, run, snippet, hashes, reports, first_fp, last_call, panic_site,
                   convert_err>>
    /\ UNCHANGED <<mvars, svars, rvars, vvars, lvars>>

\* lines 57-72: find_matches runs to its end and the match arm logs the
\* outcome; a panic unwinds through main.  overflow_checks is how the binary
\* of this run was built; it shows in the one call of a run that loads anchor
\* times of 2^31 and above.  last_call.unreadable tells that the call met an
\* entry that was there and whose metadata could not be read or that could
\* not be opened.
CompleteTrack(t) ==
    /\ pc = "scan"
    /\ t \in in_flight
    /\ \E audio \in TrackAudioInputs, disk \in DiskInputsAt(hashes), overflow_checks \in BOOLEAN :
         \E res \in find_matches(hashes[t], audio, Fingerprint(snippet).pairs, disk,
                                 overflow_checks) :
            /\ hashes' = [hashes EXCEPT ![t] = res.file]
            /\ last_call' = [track |-> t, status |-> res.status, match |-> res.match,
                        pairs |-> res.pairs, built |-> res.built,
                        audio |-> IF res.built = 1 THEN audio ELSE Undecodable,
                        unreadable |-> hashes[t].exists /\ disk.dir
                                          /\ (~disk.stat \/ ~disk.open)]
            /\ first_fp' = IF res.status = "ok" /\ res.built = 1 /\ ~first_fp[t].set
                           THEN [first_fp EXCEPT ![t] =
                                   [set |-> TRUE, pairs |-> res.pairs, earlier |-> FALSE]]
                           ELSE first_fp
            /\ IF res.status = "panic"
               THEN /\ pc' = "panicked"
                    /\ panic_site' = res.site
                    /\ in_flight' = {}
                    /\ reports' = reports
               ELSE /\ pc' = pc
                    /\ panic_site' = panic_site
                    /\ in_flight' = in_flight \ {t}
                    /\ reports' = [reports EXCEPT ![t] = @ + 1]
    /\ UNCHANGED <<run, snippet, next_idx, convert_err>>
    /\ UNCHANGED <<mvars, svars, rvars, vvars, lvars>>

\* line 75
Finish ==
    /\ pc = "scan"
    /\ next_idx > NumTracks
    /\ in_flight = {}
    /\ pc' = "exit_ok"
    /\ UNCHANGED <<run, snippet, next_idx, in_flight, hashes, reports, first_fp, last_call,
                   panic_site, convert_err>>
    /\ UNCHANGED <<mvars, svars, rvars, vvars, lvars>>

\* the program is started again; only the hashes/ directory survives
Restart ==
    /\ pc \in {"exit_ok", "exit_err", "panicked"}
    /\ run < MaxRuns
    /\ pc' = "start"
    /\ run' = run + 1
    /\ snippet' = NoPcm
    /\ next_idx' = 1
    /\ in_flight' = {}
    /\ reports' = [t \in Tracks |-> 0]
    /\ last_call' = NoCall
    /\ panic_site' = ""
    /\ convert_err' = ""
    /\ first_fp' = [t \in Tracks |-> [first_fp[t] EXCEPT !.earlier = first_fp[t].set]]
    /\ UNCHANGED hashes
    /\ UNCHANGED <<mvars, svars, rvars, vvars, lvars>>

Next ==
    \/ Startup
    \/ BeginTrack
    \/ \E t \in Tracks : CompleteTrack(t)
    \/ Finish
    \/ Restart

Spec == Init /\ [][Next]_vars


\* ========================================================= the batch scan
\* the admission capacity the design names for the scan
AdmissionCapacity == 4

\* C1: every enumerated track gets exactly one outcome (hit, no match, or
\* logged-and-skipped failure) and no failure of one track aborts the batch:
\* no find_matches call ends the process, and a finished scan has reported
\* every track once.
C1_EveryTrackOneOutcome ==
    /\ last_call.status # "panic"
    /\ \A t \in Tracks : reports[t] <= 1
    /\ pc = "exit_ok" => \A t \in Tracks : reports[t] = 1

\* C2: with more tracks queued than the admission capacity, at most
\* AdmissionCapacity track pipelines are in flight in every reachable state.
C2_AtMostNInFlight == Cardinality(in_flight) <= AdmissionCapacity

C2_Witness ==
    /\ NumTracks > AdmissionCapacity
    /\ pc = "scan"
    /\ Cardinality(in_flight) = 1
    /\ next_idx <= NumTracks

\* C3: cache round trip.  A call that finds no stored entry and succeeds has
\* run decode + extract once and leaves a file that reads back as the
\* fingerprint it returned; a successful call for a key built in an earlier
\* run returns that same fingerprint without running decode + extract.
C3_CacheRoundTrip ==
    \A t \in Tracks :
        last_call.track = t =>
            /\ (last_call.status = "ok" /\ last_call.built = 1) =>
                   /\ hashes[t].exists
                   /\ Deserialize(hashes[t].bytes) = [status |-> "ok", pairs |-> last_call.pairs]
            /\ (first_fp[t].set /\ first_fp[t].earlier /\ last_call.status = "ok") =>
                   /\ last_call.built = 0
                   /\ last_call.pairs = first_fp[t].pairs

\* C8: a track whose PCM is shorter than window_size, and likewise the
\* snippet, ends in a failure value the caller handles as "no data": the
\* call returns an error, the process does not abort.
C8_ShortPcmIsNoData ==
    /\ (last_call.built = 1 /\ last_call.audio.kind = "ogg"
          /\ last_call.audio.pcm.len < window_size) =>
           (last_call.status = "err" /\ pc # "panicked")
    /\ (last_call.track = 0 /\ snippet.len < window_size) => panic_site # "pcm_index"

\* C9: when the stored entry of a track exists but is unreadable (its
\* metadata cannot be read, or it cannot be opened) or corrupt (it does not
\* parse), the call fails for that track only: no decode + extract, the
\* stored entry is left as it was, the failure is reported and the loop goes
\* on to the next track.
C9_UnreadableEntryFailsTrackOnly ==
    [][\A t \in Tracks :
          (pc = "scan" /\ t \in in_flight /\ t \notin in_flight'
             /\ hashes[t].exists
             /\ (last_call'.unreadable \/ ~Parses(hashes[t].bytes))) =>
              /\ last_call'.track = t
              /\ last_call'.status = "err"
              /\ last_call'.built = 0
              /\ hashes' = hashes
              /\ reports' = [reports EXCEPT ![t] = @ + 1]
              /\ pc' = "scan"
              /\ in_flight' = {}
              /\ next_idx' = next_idx]_vars

\* C11: a converter that ends with a non-zero exit status is scoped to one
\* input: the run does not abort, it goes on to scan the tracks (or has
\* finished scanning them).
C11_ConverterFailureScoped ==
    convert_err = "nonzero" => pc \in {"scan", "exit_ok"}

\* ---------------------------------------------------------------- matcher
\* steps 2-5 of find_matches on the fingerprints of two clips, under either
\* build profile (anchor times here are frame indices, so no subtraction
\* leaves i32 and the two profiles agree)
InitMatch ==
    /\ m_snippet \in Clips
    /\ m_track \in Clips
    /\ m_pc = "call"
    /\ m_offset_count = <<>>
    /\ m_result = NoMatch
    /\ BatchIdle /\ SpectrogramIdle /\ RaceIdle /\ VoteIdle /\ LandmarkIdle

RunMatch ==
    /\ m_pc = "call"
    /\ LET diffs == DiffsOf(Fingerprint(m_snippet).pairs, Fingerprint(m_track).pairs)
       IN  /\ m_offset_count' = CountsOf(diffs)
           /\ \E r \in ResultsOf(diffs, TRUE) \cup ResultsOf(diffs, FALSE) : m_result' = r
    /\ m_pc' = "returned"
    /\ UNCHANGED <<m_snippet, m_track>>
    /\ UNCHANGED <<bvars, svars, rvars, vvars, lvars>>

NextMatch == RunMatch

SpecMatch == InitMatch /\ [][NextMatch]_vars

\* the highest per-offset collision count of the call, 0 when nothing collided
BestCount ==
    IF DOMAIN m_offset_count = {} THEN 0
    ELSE LET d == CHOOSE x \in DOMAIN m_offset_count :
                    \A y \in DOMAIN m_offset_count : m_offset_count[y] <= m_offset_count[x]
         IN  m_offset_count[d]

\* C4: the matcher returns a match if and only if the highest per-offset
\* collision count is strictly above 5; a winning count of exactly 5 or less,
\* and no collision at all, give no match.
C4_ThresholdBoundary ==
    m_pc = "returned" =>
        /\ (m_result.kind = "Some") <=> (BestCount > 5)
        /\ (m_result.kind = "Some") => m_result.best_count = BestCount

C4_Witness ==
    /\ m_pc = "returned"
    /\ BestCount = 5
    /\ m_result = NoMatch

\* C5: a fingerprint with at least one Hash Entry matched against an
\* identical fingerprint gives a match at offset 0 whose collision count is
\* the number of entries and is above the acceptance threshold.
C5_SelfMatch ==
    (/\ m_pc = "returned"
     /\ Fingerprint(m_track).pairs = Fingerprint(m_snippet).pairs
     /\ Len(Fingerprint(m_snippet).pairs) >= 1) =>
        /\ m_result.kind = "Some"
        /\ m_result.best_offset = 0
        /\ m_result.best_count = Len(Fingerprint(m_snippet).pairs)
        /\ m_result.best_count > match_threshold

C5_Witness ==
    /\ m_pc = "returned"
    /\ m_track = m_snippet
    /\ Len(Fingerprint(m_snippet).pairs) >= 1
    /\ Cardinality(DOMAIN m_offset_count) > 1
    /\ m_result.kind = "Some"

\* C6: whenever the snippet spans more time frames than the track, the
\* matcher returns no match.
C6_LongerSnippetNoMatch ==
    (m_pc = "returned" /\ Len(m_snippet.cols) > Len(m_track.cols)) => m_result = NoMatch

\* ----------------------------------------------------- compute_spectrogram
\* one call on a PCM buffer of sp_len samples, window_size and hop_size as
\* compute_fingerprint passes them
WholeFrames(len) ==
    IF len >= window_size THEN ((len - window_size) \div hop_size) + 1 ELSE 0

InitSpectrogram ==
    /\ sp_len \in 0 .. MaxPcmLen
    /\ sp_pc = "call"
    /\ sp_ret = <<>>
    /\ BatchIdle /\ MatchIdle /\ RaceIdle /\ VoteIdle /\ LandmarkIdle

RunSpectrogram ==
    /\ sp_pc = "call"
    /\ LET pcm == [len |-> sp_len, cols |-> [t \in 1 .. WholeFrames(sp_len) |-> 0]]
           out == compute_spectrogram(pcm, window_size, hop_size)
       IN  sp_ret' =
             [status |-> out.status,
              n_freqs |-> IF out.status = "ok" THEN Len(out.spectrogram) ELSE 0,
              n_hops |-> IF out.status = "ok" THEN Len(out.spectrogram[1]) ELSE 0,
              reads |-> FramesRead(sp_len, window_size, hop_size)]
    /\ sp_pc' = "returned"
    /\ UNCHANGED sp_len
    /\ UNCHANGED <<bvars, mvars, rvars, vvars, lvars>>

NextSpectrogram == RunSpectrogram

SpecSpectrogram == InitSpectrogram /\ [][NextSpectrogram]_vars

\* C7: for PCM of length L the spectrogram has window_size / 2 frequency bins
\* and floor((L - W) / H) + 1 time frames when L >= W, 0 when L < W; frame t
\* is computed from samples [t * H, t * H + W), all inside the buffer.
C7_SpectrogramShape ==
    sp_pc = "returned" =>
        /\ sp_ret.status = "ok"
        /\ sp_ret.n_freqs = window_size \div 2
        /\ sp_ret.n_hops = IF sp_len >= window_size
                           THEN ((sp_len - window_size) \div hop_size) + 1 ELSE 0
        /\ sp_ret.reads = {[hop_idx |-> t, lo |-> t * hop_size,
                            hi |-> t * hop_size + window_size] :
                              t \in 0 .. (sp_ret.n_hops - 1)}
        /\ \A r \in sp_ret.reads : r.hi <= sp_len

\* ------------------------- two calls of load_or_build_fingerprint, one key
\* Two callers (two runs of the program that share the hashes/ directory)
\* look up the same stem.  Each line of the function that touches the file
\* system is a step of its own.  r_dir tells whether hashes/ is there,
\* r_check[c] what caller c met at line 348: "absent" - no entry, "found" -
\* an entry, "unseen" - an entry whose metadata it could not read.
Callers == {1, 2}

\* what a caller's reader has answered before its first read
NoAnswer == [bytes |-> "", eofs |-> {}, closed |-> FALSE]

\* hashes/ is there or not; an entry is there only when hashes/ is
InitRace ==
    /\ r_pc = [c \in Callers |-> "dir"]
    /\ r_dir \in BOOLEAN
    /\ r_file = AbsentFile
    /\ r_check = [c \in Callers |-> "none"]
    /\ r_data = [c \in Callers |-> <<>>]
    /\ r_written = [c \in Callers |-> 0]
    /\ r_read = [c \in Callers |-> NoAnswer]
    /\ r_ret = [c \in Callers |-> [status |-> "none", pairs |-> <<>>]]
    /\ r_last_writer = 0
    /\ BatchIdle /\ MatchIdle /\ SpectrogramIdle /\ VoteIdle /\ LandmarkIdle

\* lines 341-343.  At "dir", hash_dir.exists(): false when hashes/ is not
\* there or its metadata cannot be read.  At "mkdir", fs::create_dir_all:
\* it makes hashes/, or finds it made meanwhile, or fails, and the call
\* returns the error.
RaceDir(c) ==
    /\ r_pc[c] \in {"dir", "mkdir"}
    /\ \E ok \in BOOLEAN :
          IF r_pc[c] = "dir"
          THEN /\ r_pc' = [r_pc EXCEPT ![c] = IF r_dir /\ ok THEN "check" ELSE "mkdir"]
               /\ UNCHANGED <<r_dir, r_ret>>
          ELSE IF ok
          THEN /\ r_pc' = [r_pc EXCEPT ![c] = "check"]
               /\ r_dir' = TRUE
               /\ r_ret' = r_ret
          ELSE /\ r_pc' = [r_pc EXCEPT ![c] = "done"]
               /\ r_dir' = r_dir
               /\ r_ret' = [r_ret EXCEPT ![c] = [status |-> "err", pairs |-> <<>>]]
    /\ UNCHANGED <<r_file, r_check, r_data, r_written, r_read, r_last_writer>>
    /\ UNCHANGED <<bvars, mvars, svars, vvars, lvars>>

\* line 348: hash_file.exists(), false when the entry is not there or its
\* metadata cannot be read
RaceCheck(c) ==
    /\ r_pc[c] = "check"
    /\ \E ok \in BOOLEAN :
          /\ r_check' = [r_check EXCEPT ![c] = IF ~r_file.exists THEN "absent"
                                               ELSE IF ok THEN "found" ELSE "unseen"]
          /\ r_pc' = [r_pc EXCEPT ![c] = IF r_file.exists /\ ok THEN "open" ELSE "build"]
    /\ UNCHANGED <<r_dir, r_file, r_data, r_written, r_read, r_ret, r_last_writer>>
    /\ UNCHANGED <<bvars, mvars, svars, vvars, lvars>>

\* lines 351-352: File::open, which can fail; the reader starts at offset 0
RaceOpen(c) ==
    /\ r_pc[c] = "open"
    /\ \E ok \in BOOLEAN :
          IF ok
          THEN /\ r_pc' = [r_pc EXCEPT ![c] = "read"]
               /\ r_ret' = r_ret
          ELSE /\ r_pc' = [r_pc EXCEPT ![c] = "done"]
               /\ r_ret' = [r_ret EXCEPT ![c] = [status |-> "err", pairs |-> <<>>]]
    /\ UNCHANGED <<r_dir, r_file, r_check, r_data, r_written, r_read, r_last_writer>>
    /\ UNCHANGED <<bvars, mvars, svars, vvars, lvars>>

\* line 353: one read(2) of the BufReader, BufCapacity bytes at most from the
\* caller's own offset, and the parse up to the next read.  A read at or
\* past the end of the file returns no byte; the reader does not remember
\* it, and the parser's next peek reads again.
RaceRead(c) ==
    /\ r_pc[c] = "read"
    /\ LET Parsed(d) ==
               IF d.st = "more" THEN r_pc' = r_pc /\ r_ret' = r_ret
               ELSE /\ r_pc' = [r_pc EXCEPT ![c] = "done"]
                    /\ r_ret' = [r_ret EXCEPT ![c] =
                                   IF d.st = "ok" THEN [status |-> "ok", pairs |-> d.val]
                                   ELSE [status |-> "err", pairs |-> <<>>]]
           Answered(all) == r_read' = [r_read EXCEPT ![c] = all] /\ Parsed(ParseDocument(all))
           Read(had, got) ==
               Answered(IF got = ""
                        THEN [had EXCEPT !.eofs = @ \cup {Len(had.bytes) + Cardinality(had.eofs) + 1}]
                        ELSE [had EXCEPT !.bytes = @ \o got])
           From(had, pos) ==
               Read(had, SubSeq(r_file.bytes, pos + 1, Min(pos + BufCapacity, Len(r_file.bytes))))
       IN  From(r_read[c], Len(r_read[c].bytes))
    /\ UNCHANGED <<r_dir, r_file, r_check, r_data, r_written, r_last_writer>>
    /\ UNCHANGED <<bvars, mvars, svars, vvars, lvars>>

\* lines 358-359: decode + extract
RaceBuild(c) ==
    /\ r_pc[c] = "build"
    /\ \E audio \in RaceAudioInputs :
          LET pcm == decode_ogg_to_mono_f32(audio)
          IN  IF pcm.status = "err"
              THEN /\ r_ret' = [r_ret EXCEPT ![c] = [status |-> "err", pairs |-> <<>>]]
                   /\ r_pc' = [r_pc EXCEPT ![c] = "done"]
                   /\ r_data' = r_data
              ELSE /\ r_data' = [r_data EXCEPT ![c] = Fingerprint(pcm.pcm).pairs]
                   /\ r_pc' = [r_pc EXCEPT ![c] = "create"]
                   /\ r_ret' = r_ret
    /\ UNCHANGED <<r_dir, r_file, r_check, r_written, r_read, r_last_writer>>
    /\ UNCHANGED <<bvars, mvars, svars, vvars, lvars>>

\* line 361: File::create truncates the file, or fails
RaceCreate(c) ==
    /\ r_pc[c] = "create"
    /\ \E ok \in BOOLEAN :
          IF ok
          THEN /\ r_file' = FileOf("")
               /\ r_pc' = [r_pc EXCEPT ![c] = "write"]
               /\ r_ret' = r_ret
          ELSE /\ r_file' = r_file
               /\ r_pc' = [r_pc EXCEPT ![c] = "done"]
               /\ r_ret' = [r_ret EXCEPT ![c] = [status |-> "err", pairs |-> <<>>]]
    /\ UNCHANGED <<r_dir, r_check, r_data, r_written, r_read, r_last_writer>>
    /\ UNCHANGED <<bvars, mvars, svars, vvars, lvars>>

\* line 363: the BufWriter writes its next piece at the caller's own offset.
\* After the last piece the call returns the fingerprint it built; it does
\* so too when that piece, written by the drop, fails.  A piece that fails
\* inside the serializer ends it with the error.
RaceWrite(c) ==
    /\ r_pc[c] = "write"
    /\ LET chunks == BufWrites(r_data[c])
           k == r_written[c] + 1
       IN  \E ok \in BOOLEAN :
              /\ r_file' = IF ok THEN FileOf(WriteAt(r_file.bytes, chunks[k].off, chunks[k].bytes))
                           ELSE r_file
              /\ r_written' = IF ok THEN [r_written EXCEPT ![c] = k] ELSE r_written
              /\ r_last_writer' = IF ok THEN c ELSE r_last_writer
              /\ IF chunks[k].drop
                 THEN /\ r_pc' = [r_pc EXCEPT ![c] = "done"]
                      /\ r_ret' = [r_ret EXCEPT ![c] = [status |-> "ok", pairs |-> r_data[c]]]
                 ELSE /\ r_pc' = [r_pc EXCEPT ![c] = IF ok THEN "write" ELSE "drop"]
                      /\ r_ret' = r_ret
    /\ UNCHANGED <<r_dir, r_check, r_data, r_read>>
    /\ UNCHANGED <<bvars, mvars, svars, vvars, lvars>>

\* line 363, leaving with the error: the drop of the BufWriter tries the
\* piece that failed once more and discards the outcome
RaceDrop(c) ==
    /\ r_pc[c] = "drop"
    /\ LET chunks == BufWrites(r_data[c])
           k == r_written[c] + 1
       IN  \E ok \in BOOLEAN :
              /\ r_file' = IF ok THEN FileOf(WriteAt(r_file.bytes, chunks[k].off, chunks[k].bytes))
                           ELSE r_file
              /\ r_written' = IF ok THEN [r_written EXCEPT ![c] = k] ELSE r_written
              /\ r_last_writer' = IF ok THEN c ELSE r_last_writer
    /\ r_pc' = [r_pc EXCEPT ![c] = "done"]
    /\ r_ret' = [r_ret EXCEPT ![c] = [status |-> "err", pairs |-> <<>>]]
    /\ UNCHANGED <<r_dir, r_check, r_data, r_read>>
    /\ UNCHANGED <<bvars, mvars, svars, vvars, lvars>>

NextRace ==
    \E c \in Callers :
        \/ RaceDir(c)
        \/ RaceCheck(c)
        \/ RaceOpen(c)
        \/ RaceRead(c)
        \/ RaceBuild(c)
        \/ RaceCreate(c)
        \/ RaceWrite(c)
        \/ RaceDrop(c)

SpecRace == InitRace /\ [][NextRace]_vars

\* C10: when both callers made the existence check before either wrote
\* (each met no entry), each ran decode + extract itself, each returned a
\* complete fingerprint, and the entry left in storage is the one the last
\* writer wrote.
C10_LastWriterWins ==
    (\A c \in Callers :
        /\ r_check[c] = "absent"
        /\ r_pc[c] = "done" /\ r_ret[c].status = "ok"
        /\ Len(r_data[c]) > 0 /\ r_written[c] = Len(BufWrites(r_data[c]))) =>
        /\ \A c \in Callers : r_ret[c].pairs = r_data[c]
        /\ r_file = FileOf(Serialize(r_ret[r_last_writer].pairs))

\* ------------------------------------------------------------ offset voting
\* steps 2-5 of find_matches on any two short fingerprints.  The Hash
\* Entries share keys, repeat, and differ in delta_t alone or in time alone;
\* the snippet's are computed ones, the track's are loaded from a file and
\* one of them has the anchor time 2^31.
SnippetVoteEntries ==
    {[f1 |-> 1, f2 |-> 2, delta_t |-> 1, anchor_time |-> U32Of(0)],
     [f1 |-> 1, f2 |-> 2, delta_t |-> 1, anchor_time |-> U32Of(1)]}

TrackVoteEntries ==
    SnippetVoteEntries \cup
        {[f1 |-> 1, f2 |-> 2, delta_t |-> 2, anchor_time |-> U32Of(0)],
         [f1 |-> 1, f2 |-> 2, delta_t |-> 1, anchor_time |-> U32High(0)]}

InitVote ==
    /\ v_snippet \in SeqsUpTo(SnippetVoteEntries, MaxSnippetEntries)
    /\ v_track \in SeqsUpTo(TrackVoteEntries, MaxTrackEntries)
    /\ v_pc = "call"
    /\ v_offset_count = <<>>
    /\ v_results = <<>>
    /\ v_checks \in BOOLEAN
    /\ BatchIdle /\ MatchIdle /\ SpectrogramIdle /\ RaceIdle /\ LandmarkIdle

\* one run of the matcher; the same two fingerprints are matched twice by
\* the same binary
RunVote ==
    /\ v_pc = "call"
    /\ LET diffs == DiffsOf(v_snippet, v_track)
       IN  \E r \in ResultsOf(diffs, v_checks) :
              /\ v_results' = Append(v_results, r)
              /\ v_offset_count' = IF r = Panicked THEN <<>> ELSE CountsOf(diffs)
    /\ v_pc' = IF Len(v_results) = 1 THEN "returned" ELSE "call"
    /\ UNCHANGED <<v_snippet, v_track, v_checks>>
    /\ UNCHANGED <<bvars, mvars, svars, rvars, lvars>>

NextVote == RunVote

SpecVote == InitVote /\ [][NextVote]_vars

\* anchor_time(t) - anchor_time(s) = d, for an i32 d
TimeDiffIs(t, s, d) ==
    IF t.hi = s.hi THEN t.lo - s.lo = d
    ELSE IF t.hi = 1 THEN t.lo < s.lo /\ ((t.lo - s.lo) + I32Max) + 1 = d
    ELSE s.lo <= t.lo /\ ((t.lo - s.lo) - I32Max) - 1 = d

\* the pairs (snippet entry, track entry) with equal key
KeyPairs ==
    {p \in (DOMAIN v_snippet) \X (DOMAIN v_track) :
        KeyOf(v_snippet[p[1]]) = KeyOf(v_track[p[2]])}

\* the pairs with equal key whose time difference, track minus snippet, is d
VotesFor(d) ==
    Cardinality({p \in KeyPairs :
                   TimeDiffIs(v_track[p[2]].anchor_time, v_snippet[p[1]].anchor_time, d)})

\* C12: every run of the matcher counts the votes: the counter of offset d
\* is the number of (snippet entry, track entry) pairs with equal key
\* (f1, f2, delta_t) and track time minus snippet time equal to d, negative
\* d included, and every such pair has its counter; a returned match carries
\* the highest count, an offset that has that count, and
\* offset * hop_size / sample_rate as its time in seconds.
C12_OffsetVoting ==
    \A i \in DOMAIN v_results :
        /\ v_results[i] # Panicked
        /\ \A d \in DOMAIN v_offset_count : v_offset_count[d] = VotesFor(d)
        /\ \A p \in KeyPairs :
              \E d \in DOMAIN v_offset_count :
                 TimeDiffIs(v_track[p[2]].anchor_time, v_snippet[p[1]].anchor_time, d)
        /\ v_results[i].kind = "Some" =>
              /\ \A d \in DOMAIN v_offset_count : VotesFor(d) <= v_results[i].best_count
              /\ VotesFor(v_results[i].best_offset) = v_results[i].best_count
              /\ (v_results[i].offset_sec.whole * v_results[i].offset_sec.den
                     + v_results[i].offset_sec.num) * sample_rate
                    = v_results[i].best_offset * hop_size * v_results[i].offset_sec.den

\* the offsets whose counter is the highest of the call
TiedOffsets ==
    {d \in DOMAIN v_offset_count :
        \A e \in DOMAIN v_offset_count : v_offset_count[e] <= v_offset_count[d]}

\* C14: two runs of the matcher on the same two fingerprints agree on
\* match / no match and on the collision count, whichever entry the
\* iteration over the counter map yields last; their offsets differ only
\* when two or more offsets share the highest count.
C14_DeterminismUnderTies ==
    v_pc = "returned" =>
        /\ v_results[1].kind = v_results[2].kind
        /\ v_results[1].kind = "Some" =>
              /\ v_results[1].best_count = v_results[2].best_count
              /\ v_results[1].best_offset # v_results[2].best_offset =>
                    Cardinality(TiedOffsets) >= 2

C14_Witness ==
    /\ v_pc = "returned"
    /\ v_results[1].kind = "Some"
    /\ v_results[2].kind = "Some"
    /\ v_results[1].best_offset # v_results[2].best_offset

\* ----------------------------------------------------- landmark extraction
\* one call of compute_fingerprint on a clip long enough for the whole
\* lookahead: frame t1 of the clip has content (t1 * k + s) mod 3
LandmarkCols(n, k, s) == [t1 \in 1 .. n |-> (t1 * k + s) % 3]

LandmarkClips ==
    {ClipOf(LandmarkCols(n, k, s)) : n \in 1 .. MaxLandmarkFrames, k \in 0 .. 2, s \in 0 .. 2}

InitLandmark ==
    /\ l_clip \in LandmarkClips
    /\ l_pc = "call"
    /\ l_peaks = <<>>
    /\ l_ret = <<>>
    /\ BatchIdle /\ MatchIdle /\ SpectrogramIdle /\ RaceIdle /\ VoteIdle

RunLandmark ==
    /\ l_pc = "call"
    /\ LET spec == compute_spectrogram(l_clip, window_size, hop_size)
       IN  l_peaks' = IF spec.status = "panic" THEN <<>> ELSE find_peaks(spec.spectrogram)
    /\ l_ret' = compute_fingerprint(l_clip)
    /\ l_pc' = "returned"
    /\ UNCHANGED l_clip
    /\ UNCHANGED <<bvars, mvars, svars, rvars, vvars>>

NextLandmark == RunLandmark

SpecLandmark == InitLandmark /\ [][NextLandmark]_vars

\* the first k selected peaks of frame t
FirstPeaks(t, k) == {l_peaks[t + 1][j] : j \in 1 .. Min(Len(l_peaks[t + 1]), k)}

\* every pairing of a selected peak of a frame t with one of the first
\* fan_value selected peaks of a frame t + d of the clip, 1 <= d <= max_delta
Pairings(max_delta) ==
    UNION {UNION {{[f1 |-> f1, f2 |-> f2, delta_t |-> d, anchor_time |-> U32Of(t)] :
                       f1 \in FirstPeaks(t, top_n), f2 \in FirstPeaks(t + d, fan_value)} :
                     d \in 1 .. Min(max_delta, Len(l_peaks) - 1 - t)} :
             t \in 0 .. (Len(l_peaks) - 1)}

\* the emitted Hash Entries are those pairings and no others
LandmarksWithin(max_delta) ==
    (l_pc = "returned" /\ l_ret.status = "ok") =>
        {l_ret.pairs[i] : i \in DOMAIN l_ret.pairs} = Pairings(max_delta)

\* C13 as stated: every emitted Hash Entry pairs a selected peak of frame
\* anchor_time with one of the first fan_value selected peaks of frame
\* anchor_time + delta_t, inside the clip, with 1 <= delta_t <= 8 (lookahead
\* 9, frames t+1 .. t+lookahead-1), and every such pairing is emitted.
C13_LookaheadEight == LandmarksWithin(9 - 1)

\* C13 amended: the same with the paired frame among the next nine frames,
\* t+1 .. t+9, so 1 <= delta_t <= 9.
C13_LookaheadNine == LandmarksWithin(lookahead_end - 1)

C13_Witness ==
    /\ l_pc = "returned"
    /\ l_ret.status = "ok"
    /\ Len(l_peaks) > lookahead_end
    /\ \E i \in DOMAIN l_ret.pairs :
          l_ret.pairs[i].delta_t = lookahead_end - 1 /\ l_ret.pairs[i].anchor_time = U32Of(0)

====
